---- MODULE Spec2Model ----
(***************************************************************************)
(* Model of the MLflow tutorial notebook (src/mlflow_tutorial.ipynb).      *)
(*                                                                         *)
(* State: the tracking store (experiments, runs), the model registry       *)
(* (model versions, alias bindings), the MLflow client state held by the   *)
(* notebook kernel (active experiment, active run stack) and the notebook  *)
(* variables the cells share (experiment, model).  One action per notebook *)
(* cell (the training cell is split at its statements, since it is the     *)
(* only cell that loops) and one per UI operation the notebook documents.  *)
(***************************************************************************)
EXTENDS Integers, Sequences, FiniteSets, TLC

(* ------------------------------ bounds -------------------------------- *)

\* Runs the store may hold (the training cell adds two per execution).
MaxRuns == 4
\* Model versions the registry may hold, all models together.
MaxVersions == 2
\* validation_accuracy is a float; the model ranks it on 1..MaxAcc.
MaxAcc == 2
\* Height and width of the images handed to classify.
MaxSide == 6

(* ----------------------- values of the notebook ----------------------- *)

\* A run whose metrics hold no validation_accuracy (NaN in the DataFrame).
NoMetric == 0
AccValues == 1..MaxAcc

\* The notebook variable `experiment` before the configuration cell has run.
Undefined == -1

\* The notebook variable `model` before any cell has bound it.
NoModel == [kind |-> "undefined", name |-> <<>>, version |-> 0]

\* Experiment id of the experiment every tracking store starts with.
DefaultExperimentId == 0

\* experiment_name of the configuration cell.
experiment_name == "MLflow tutorial"

\* models = {model_1: "3Layer_adagrad", model_2: "3Layer_adam"}, in insertion
\* order, which is the order models.items() yields.
models == <<"3Layer_adagrad", "3Layer_adam">>

\* Run name a run carries until set_tag overwrites it (MLflow generates one).
GeneratedName == "generated"

\* Names a registered model can be given in the UI, as character sequences so
\* that the LIKE filter is computed, not tabulated.  In ascending name order,
\* the order search_registered_models returns its results in.
Digits == <<"d", "i", "g", "i", "t", "s">>
Mnist == <<"m", "n", "i", "s", "t">>
MnistClassifier == <<"m", "n", "i", "s", "t", "_", "c", "l", "a", "s", "s", "i", "f", "i", "e", "r">>
NamesAscending == <<Digits, Mnist, MnistClassifier>>
ModelNames == {NamesAscending[i] : i \in 1..Len(NamesAscending)}

Aliases == {"champion", "challenger"}

\* Registrations the tutorial asks for in the UI before the registration cell.
UIRegistrations == 1

VARIABLES
    experiments,        \* tracking store: set of [experiment_id, name]
    runs,               \* tracking store: sequence of runs, run_id = index
    activeExperiment,   \* MLflow client: id of the active experiment
    activeRuns,         \* MLflow client: stack of active run ids
    experiment,         \* notebook variable `experiment` (its experiment_id)
    trainPc,            \* statement the training cell is at
    trainIdx,           \* position of the training loop in models.items()
    modelVersions,      \* registry: set of [name, version, run_id]
    aliases,            \* registry: set of [name, alias, version]
    model,              \* notebook variable `model` (loop variable and loaded model)
    trainStart,         \* the runs the store held when the training cell began
    last                \* the cell or UI operation executed last, and its outcome

vars == <<experiments, runs, activeExperiment, activeRuns, experiment, trainPc,
          trainIdx, modelVersions, aliases, model, trainStart, last>>

trackingVars == <<experiments, runs, activeExperiment, activeRuns, experiment>>
trainVars == <<trainPc, trainIdx, trainStart>>
registryVars == <<modelVersions, aliases>>

(* ------------------------- tracking: experiments ---------------------- *)

ExperimentsNamed(exps, name) == {e \in exps : e.name = name}

MaxExperimentId(exps) ==
    CHOOSE m \in {e.experiment_id : e \in exps} :
        \A e \in exps : e.experiment_id <= m

\* Variant of SetExperiment that creates an experiment on every call.
SetExperimentAlwaysCreating(exps, name) ==
    LET new == [experiment_id |-> MaxExperimentId(exps) + 1, name |-> name]
    IN [store |-> exps \cup {new}, exp |-> new]

\* mlflow.set_experiment(name): the experiment of that name, created first
\* when the store has none.  Returns the store and the experiment.
SetExperiment(exps, name) ==
    IF ExperimentsNamed(exps, name) # {}
    THEN [store |-> exps,
          exp |-> CHOOSE e \in ExperimentsNamed(exps, name) : TRUE]
    ELSE LET new == [experiment_id |-> MaxExperimentId(exps) + 1, name |-> name]
         IN [store |-> exps \cup {new}, exp |-> new]

\* Configuration cell: set_tracking_uri, set_experiment, print.
ConfigurationCell ==
    /\ trainPc = "idle"
    /\ LET r == SetExperiment(experiments, experiment_name)
       IN /\ experiments' = r.store
          /\ activeExperiment' = r.exp.experiment_id
          /\ experiment' = r.exp.experiment_id
    /\ last' = [op |-> "configuration_cell",
                existed |-> ExperimentsNamed(experiments, experiment_name) # {}]
    /\ UNCHANGED <<runs, activeRuns, trainVars, registryVars, model>>

(* ---------------------------- tracking: runs -------------------------- *)

RunIds == 1..Len(runs)

ActiveRunIds(rs) == {i \in 1..Len(rs) : rs[i].status = "RUNNING"}

\* mlflow.start_run(): a new RUNNING run in the active experiment, pushed on
\* the active run stack.
CreateRun(rs, expId) ==
    Append(rs, [experiment_id |-> expId, status |-> "RUNNING",
                runName |-> GeneratedName, validation_accuracy |-> NoMetric])

\* Variant of EndRunStore that leaves the status of the run as it is.
EndRunStoreKeepingStatus(rs, stack) == rs

\* Variant of EndRunStore that, with no run active, fails the newest run.
EndRunStoreFailingNewest(rs, stack) ==
    IF Len(stack) > 0
    THEN [rs EXCEPT ![stack[Len(stack)]].status = "FINISHED"]
    ELSE IF Len(rs) > 0
    THEN [rs EXCEPT ![Len(rs)].status = "FAILED"]
    ELSE rs

\* mlflow.end_run(): terminates the run on top of the stack; nothing to do
\* when no run is active.
EndRunStore(rs, stack) ==
    IF Len(stack) > 0
    THEN [rs EXCEPT ![stack[Len(stack)]].status = "FINISHED"]
    ELSE rs

EndRunStack(stack) ==
    IF Len(stack) > 0 THEN SubSeq(stack, 1, Len(stack) - 1) ELSE stack

\* Training cell up to the loop: autolog, data, the two compiled models.
\* Executed while the store stays within maxRuns runs.
TrainingCellBegin(maxRuns) ==
    /\ trainPc = "idle"
    /\ Len(runs) + Len(models) <= maxRuns
    /\ trainPc' = "start_run"
    /\ trainIdx' = 1
    /\ trainStart' = runs
    /\ last' = [op |-> "training_cell", finished |-> FALSE]
    /\ UNCHANGED <<trackingVars, registryVars, model>>

\* for model, name in models.items(): with mlflow.start_run():
\* The loop header binds the notebook variable `model` to the Keras model.
\* start_run raises when a run is already active; the stack is empty here.
StartRun ==
    /\ trainPc = "start_run"
    /\ Len(activeRuns) = 0
    /\ model' = [kind |-> "keras", name |-> <<>>, version |-> trainIdx]
    /\ runs' = CreateRun(runs, activeExperiment)
    /\ activeRuns' = Append(activeRuns, Len(runs) + 1)
    /\ trainPc' = "set_tag"
    /\ UNCHANGED <<experiments, activeExperiment, experiment, trainIdx, trainStart,
                   registryVars, last>>

\* Variant of SetTag that tags every run with the name of the first model.
SetTagFirstName ==
    /\ trainPc = "set_tag"
    /\ runs' = [runs EXCEPT ![activeRuns[Len(activeRuns)]].runName = models[1]]
    /\ trainPc' = "fit"
    /\ UNCHANGED <<experiments, activeExperiment, activeRuns, experiment, trainIdx,
                   trainStart, registryVars, model, last>>

\* run_name = name; mlflow.set_tag("mlflow.runName", run_name)
SetTag ==
    /\ trainPc = "set_tag"
    /\ runs' = [runs EXCEPT ![activeRuns[Len(activeRuns)]].runName = models[trainIdx]]
    /\ trainPc' = "fit"
    /\ UNCHANGED <<experiments, activeExperiment, activeRuns, experiment, trainIdx,
                   trainStart, registryVars, model, last>>

\* model.fit(..., validation_data=...) and model.evaluate(...): autologging
\* records the metrics of the active run; whether a validation_accuracy is
\* among them, and its value, is the library's and the training's affair.
Fit ==
    /\ trainPc = "fit"
    /\ \E acc \in AccValues \cup {NoMetric} :
           runs' = [runs EXCEPT ![activeRuns[Len(activeRuns)]].validation_accuracy = acc]
    /\ trainPc' = "end_run"
    /\ UNCHANGED <<experiments, activeExperiment, activeRuns, experiment, trainIdx,
                   trainStart, registryVars, model, last>>

\* mlflow.end_run(), the last statement of the with-block.
EndRun ==
    /\ trainPc = "end_run"
    /\ runs' = EndRunStore(runs, activeRuns)
    /\ activeRuns' = EndRunStack(activeRuns)
    /\ trainPc' = "with_exit"
    /\ UNCHANGED <<experiments, activeExperiment, experiment, trainIdx, trainStart,
                   registryVars, model, last>>

\* Exit of the with-block (ActiveRun.__exit__ ends the run again), then the
\* next iteration of the loop or the end of the cell.
WithExit ==
    /\ trainPc = "with_exit"
    /\ runs' = EndRunStore(runs, activeRuns)
    /\ activeRuns' = EndRunStack(activeRuns)
    /\ IF trainIdx < Len(models)
       THEN /\ trainIdx' = trainIdx + 1
            /\ trainPc' = "start_run"
            /\ UNCHANGED <<trainStart, last>>
       ELSE /\ trainIdx' = 0
            /\ trainPc' = "idle"
            /\ trainStart' = <<>>
            /\ last' = [op |-> "training_cell", finished |-> TRUE]
    /\ UNCHANGED <<experiments, activeExperiment, experiment, registryVars, model>>

(* ------------------------------ registry ------------------------------ *)

VersionsOf(mvs, name) == {mv \in mvs : mv.name = name}

VersionNumbers(mvs, name) == {mv.version : mv \in VersionsOf(mvs, name)}

LatestVersion(mvs, name) ==
    IF VersionsOf(mvs, name) = {} THEN 0
    ELSE CHOOSE v \in VersionNumbers(mvs, name) :
             \A w \in VersionNumbers(mvs, name) : w <= v

\* Variant of RegisterModel that numbers the new version like the latest one.
RegisterModelReusingVersion(mvs, name, run_id) ==
    LET latest == LatestVersion(mvs, name)
        mv == [name |-> name, version |-> IF latest = 0 THEN 1 ELSE latest,
               run_id |-> run_id]
    IN [store |-> mvs \cup {mv}, mv |-> mv]

\* mlflow.register_model(model_uri, name) with model_uri = runs:/<run_id>:
\* the registered model is created when the name is new; the run becomes the
\* next version of it.  Returns the registry and the ModelVersion.
RegisterModel(mvs, name, run_id) ==
    LET mv == [name |-> name, version |-> LatestVersion(mvs, name) + 1,
               run_id |-> run_id]
    IN [store |-> mvs \cup {mv}, mv |-> mv]

\* Variant of SetRegisteredModelAlias that keeps the old binding.
SetRegisteredModelAliasKeepingOld(als, name, alias, version) ==
    als \cup {[name |-> name, alias |-> alias, version |-> version]}

\* client.set_registered_model_alias(name, alias, version): the alias of that
\* model is bound to the version, whatever it was bound to before.
SetRegisteredModelAlias(als, name, alias, version) ==
    {a \in als : ~(a.name = name /\ a.alias = alias)}
        \cup {[name |-> name, alias |-> alias, version |-> version]}

\* Versions an alias of a model is bound to.
AliasVersions(als, name, alias) ==
    {a.version : a \in {b \in als : b.name = name /\ b.alias = alias}}

\* filter_string = "name LIKE 'mnist%'": the characters before the wildcard.
filter_string == <<"m", "n", "i", "s", "t">>

\* name LIKE '<prefix>%'
Like(name, prefix) ==
    /\ Len(name) >= Len(prefix)
    /\ SubSeq(name, 1, Len(prefix)) = prefix

\* mlflow.search_registered_models(filter_string=...): the registered models
\* whose name matches, by ascending name.
SearchRegisteredModels(mvs, prefix) ==
    LET Match(n) == VersionsOf(mvs, n) # {} /\ Like(n, prefix)
    IN SelectSeq(NamesAscending, Match)

\* mlflow.search_runs([experiment_id]): the runs of the experiment, most
\* recently started first (run ids, the rows of the DataFrame).
SearchRuns(rs, expId) ==
    LET n == Len(rs)
        newestFirst == [i \in 1..n |-> n + 1 - i]
        InExperiment(id) == rs[id].experiment_id = expId
    IN SelectSeq(newestFirst, InExperiment)

\* Rows of the DataFrame whose metrics.validation_accuracy is not NaN.
WithMetric(rs, rows) ==
    {p \in 1..Len(rows) : rs[rows[p]].validation_accuracy # NoMetric}

\* Variant of IdxMax that takes the first row holding the smallest value.
IdxMin(rs, rows) ==
    CHOOSE p \in WithMetric(rs, rows) :
        /\ \A q \in WithMetric(rs, rows) :
               rs[rows[p]].validation_accuracy <= rs[rows[q]].validation_accuracy
        /\ \A q \in WithMetric(rs, rows) :
               rs[rows[q]].validation_accuracy = rs[rows[p]].validation_accuracy
                   => p <= q

\* runs['metrics.validation_accuracy'].idxmax(): the first row holding the
\* largest value, NaN skipped.
IdxMax(rs, rows) ==
    CHOOSE p \in WithMetric(rs, rows) :
        /\ \A q \in WithMetric(rs, rows) :
               rs[rows[q]].validation_accuracy <= rs[rows[p]].validation_accuracy
        /\ \A q \in WithMetric(rs, rows) :
               rs[rows[q]].validation_accuracy = rs[rows[p]].validation_accuracy
                   => p <= q

(* -------------------------- registration cell ------------------------- *)

\* mv before register_model has returned.
NoVersion == [name |-> <<>>, version |-> 0, run_id |-> 0]

\* Library calls of the try block that can fail for reasons of their own
\* (store unreachable, files unreadable, ...).
FailurePoints == {"search_runs", "search_registered_models", "register_model",
                  "set_registered_model_alias"}

\* State the try block is left in: the exception raised ("none" when the
\* block ran to its end), the locals run_id and mv, and the registry.
Raised(exc, run_id, mv, mvs, als) ==
    [exc |-> exc, run_id |-> run_id, mv |-> mv, modelVersions |-> mvs, aliases |-> als]

\* Variant of AssignChallenger that binds the alias to the first version.
AssignChallengerToFirst(als, mv) ==
    SetRegisteredModelAlias(als, mv.name, "challenger", 1)

\* Variant of AssignChallenger that assigns the alias champion.
AssignChampion(als, mv) ==
    SetRegisteredModelAlias(als, mv.name, "champion", mv.version)

\* client.set_registered_model_alias(mv.name, "challenger", mv.version)
AssignChallenger(als, mv) ==
    SetRegisteredModelAlias(als, mv.name, "challenger", mv.version)

\* Variant of AliasFailed that takes the new version back out of the registry.
AliasFailedRollingBack(run_id, r) ==
    Raised("MlflowException", run_id, r.mv, modelVersions, aliases)

\* set_registered_model_alias raises after register_model has returned r: the
\* try block is left with the registry as register_model made it.
AliasFailed(run_id, r) ==
    Raised("MlflowException", run_id, r.mv, r.store, aliases)

\* The try block, with the library call named by fail failing.
TryBlock(fail) ==
    IF experiment = Undefined
    THEN Raised("NameError", 0, NoVersion, modelVersions, aliases)
    ELSE IF fail = "search_runs"
    THEN Raised("MlflowException", 0, NoVersion, modelVersions, aliases)
    ELSE LET rows == SearchRuns(runs, experiment) IN
    IF WithMetric(runs, rows) = {}
    THEN Raised("KeyError", 0, NoVersion, modelVersions, aliases)
    ELSE LET run_id == rows[IdxMax(runs, rows)] IN
    IF fail = "search_registered_models"
    THEN Raised("MlflowException", run_id, NoVersion, modelVersions, aliases)
    ELSE LET registered_models == SearchRegisteredModels(modelVersions, filter_string) IN
    IF Len(registered_models) = 0
    THEN Raised("IndexError", run_id, NoVersion, modelVersions, aliases)
    ELSE LET model_name == SearchRegisteredModels(modelVersions, filter_string)[1] IN
    IF fail = "register_model"
    THEN Raised("MlflowException", run_id, NoVersion, modelVersions, aliases)
    ELSE LET r == RegisterModel(modelVersions, model_name, run_id) IN
    IF fail = "set_registered_model_alias"
    THEN AliasFailed(run_id, r)
    ELSE Raised("none", run_id, r.mv, r.store, AssignChallenger(aliases, r.mv))

\* Exceptions of the model that derive from Exception (all of them do).
ExceptionSubclasses == {"NameError", "KeyError", "IndexError", "MlflowException"}

\* Variant of ExceptHandler with the generic handler first.
ExceptHandlerGenericFirst(exc) ==
    IF exc = "none" THEN "none"
    ELSE IF exc \in ExceptionSubclasses THEN "An exception occurred"
    ELSE "escaped"

\* Variant of ExceptHandler without the generic handler.
ExceptHandlerIndexErrorOnly(exc) ==
    IF exc = "none" THEN "none"
    ELSE IF exc = "IndexError" THEN "No registered model found"
    ELSE "escaped"

\* except IndexError: ... except Exception as e: ...
\* The handler an exception of the try block ends in.
ExceptHandler(exc) ==
    IF exc = "none" THEN "none"
    ELSE IF exc = "IndexError" THEN "No registered model found"
    ELSE IF exc \in ExceptionSubclasses THEN "An exception occurred"
    ELSE "escaped"

\* Registration cell: try block and handlers.
RegistrationCell ==
    /\ trainPc = "idle"
    /\ \E fail \in FailurePoints \cup {"none"} : \E t \in {TryBlock(fail)} :
           /\ Cardinality(t.modelVersions) <= MaxVersions
           /\ modelVersions' = t.modelVersions
           /\ aliases' = t.aliases
           /\ last' = [op |-> "registration_cell", exc |-> t.exc,
                       printed |-> ExceptHandler(t.exc),
                       run_id |-> t.run_id, mv |-> t.mv,
                       before |-> [modelVersions |-> modelVersions,
                                   aliases |-> aliases]]
    /\ UNCHANGED <<trackingVars, trainVars, model>>

(* --------------------------- MLflow UI -------------------------------- *)

\* UI, run details, "Register model": a new model name or an existing one.
\* Used with the names given, while the registry stays within maxVersions
\* versions.
UIRegisterModel(names, maxVersions) ==
    /\ trainPc = "idle"
    /\ Cardinality(modelVersions) < maxVersions
    /\ \E run_id \in RunIds, name \in names :
           /\ runs[run_id].status = "FINISHED"
           /\ modelVersions' = RegisterModel(modelVersions, name, run_id).store
    /\ last' = [op |-> "ui_register_model"]
    /\ UNCHANGED <<trackingVars, trainVars, aliases, model>>

\* UI, Models tab, details of a registered model: add an alias to a version.
UISetAlias ==
    /\ trainPc = "idle"
    /\ \E mv \in modelVersions, alias \in Aliases :
           /\ aliases' = SetRegisteredModelAlias(aliases, mv.name, alias, mv.version)
           /\ last' = [op |-> "ui_set_alias", name |-> mv.name, alias |-> alias,
                       version |-> mv.version,
                       rebound |-> AliasVersions(aliases, mv.name, alias) # {}]
    /\ UNCHANGED <<trackingVars, trainVars, modelVersions, model>>

(* --------------------------- inference cell --------------------------- *)

\* Variant of LoadModel that resolves every alias to the latest version.
LoadModelLatest(mvs, als, name, alias) ==
    IF VersionsOf(mvs, name) = {}
    THEN [exc |-> "MlflowException", model |-> NoModel]
    ELSE [exc |-> "none",
          model |-> [kind |-> "pyfunc", name |-> name,
                     version |-> LatestVersion(mvs, name)]]

\* mlflow.pyfunc.load_model("models:/<name>@<alias>"): the version the alias
\* is bound to; an exception when the alias is bound to none.
LoadModel(mvs, als, name, alias) ==
    IF AliasVersions(als, name, alias) = {}
    THEN [exc |-> "MlflowException", model |-> NoModel]
    ELSE [exc |-> "none",
          model |-> [kind |-> "pyfunc", name |-> name,
                     version |-> CHOOSE v \in AliasVersions(als, name, alias) : TRUE]]

\* Inference cell up to print(model): an exception of load_model ends the
\* cell and leaves the variable `model` as it was.
InferenceCell ==
    /\ trainPc = "idle"
    /\ LET r == LoadModel(modelVersions, aliases, MnistClassifier, "champion")
       IN /\ model' = IF r.exc = "none" THEN r.model ELSE model
          /\ last' = [op |-> "inference_cell", exc |-> r.exc, previous |-> model]
    /\ UNCHANGED <<trackingVars, trainVars, registryVars>>

(* ------------------------------ classify ------------------------------ *)

\* Height and width the model takes: resize(composite_image, (28, 28)).
Side == 28

\* Shapes of image['composite'] as an array: H x W, H x W x 3, H x W x 4.
ImageShapes ==
    {<<h, w>> : h \in 1..MaxSide, w \in 1..MaxSide}
        \cup {<<h, w, c>> : h \in 1..MaxSide, w \in 1..MaxSide, c \in {3, 4}}

\* if composite_image.shape[-1] == 4: ... elif composite_image.shape[-1] == 3:
\* whether the mean over the last axis is taken.
MeanTaken(shape) == shape[Len(shape)] = 4 \/ shape[Len(shape)] = 3

\* Shape after np.mean(..., axis=-1), which drops the last axis (the slice
\* [..., :3] before it only shortens that axis).
GrayscaleShape(shape) ==
    IF MeanTaken(shape) THEN SubSeq(shape, 1, Len(shape) - 1) ELSE shape

\* Shape of resize(array, (28, 28)): an array of fewer dimensions is padded
\* with axes of length 1 first; an array of one more keeps its last axis; an
\* array of still more is an error (the empty shape).
ResizeShape(shape) ==
    IF Len(shape) <= 2 THEN <<Side, Side>>
    ELSE IF Len(shape) = 3 THEN <<Side, Side, shape[3]>>
    ELSE <<>>

RECURSIVE Size(_)
Size(shape) == IF shape = <<>> THEN 1 ELSE shape[1] * Size(Tail(shape))

\* Shape of np.reshape(array, (1, 28, 28)): an error (the empty shape) when
\* the array does not hold 1 * 28 * 28 values.
ReshapeShape(shape) ==
    IF shape # <<>> /\ Size(shape) = Side * Side THEN <<1, Side, Side>> ELSE <<>>

\* classify(image), called by the Gradio interface the inference cell
\* launches after it has loaded the model.
Classify ==
    /\ trainPc = "idle"
    /\ model.kind = "pyfunc"
    /\ \E shape \in ImageShapes :
           last' = [op |-> "classify", shape |-> shape,
                    meanTaken |-> MeanTaken(shape),
                    predictShape |-> ReshapeShape(ResizeShape(GrayscaleShape(shape)))]
    /\ UNCHANGED <<trackingVars, trainVars, registryVars, model>>

(* ---------------------------- specification --------------------------- *)

Init ==
    /\ experiments = {[experiment_id |-> DefaultExperimentId, name |-> "Default"]}
    /\ runs = <<>>
    /\ activeExperiment = DefaultExperimentId
    /\ activeRuns = <<>>
    /\ experiment = Undefined
    /\ trainPc = "idle"
    /\ trainIdx = 0
    /\ trainStart = <<>>
    /\ modelVersions = {}
    /\ aliases = {}
    /\ model = NoModel
    /\ last = [op |-> "none"]

\* The notebook and the UI, every cell and operation at any time.
Next ==
    \/ ConfigurationCell
    \/ TrainingCellBegin(MaxRuns)
    \/ StartRun
    \/ SetTag
    \/ Fit
    \/ EndRun
    \/ WithExit
    \/ RegistrationCell
    \/ UIRegisterModel(ModelNames, MaxVersions)
    \/ UISetAlias
    \/ InferenceCell
    \/ Classify

Spec == Init /\ [][Next]_vars

\* Tracking in full (repeated training), the registry as far as the tutorial
\* takes it when followed to the letter: the one registration it asks for in
\* the UI, then the registration cell.
NextTracking ==
    \/ ConfigurationCell
    \/ TrainingCellBegin(MaxRuns)
    \/ StartRun
    \/ SetTag
    \/ Fit
    \/ EndRun
    \/ WithExit
    \/ RegistrationCell
    \/ UIRegisterModel(ModelNames, UIRegistrations)

SpecTracking == Init /\ [][NextTracking]_vars

\* The registry in full for the models the registration and inference cells
\* can see, those the filter matches (any registrations and alias changes in
\* the UI, the two cells at any time), tracking as far as one execution of
\* the training cell.
MatchingNames == {n \in ModelNames : Like(n, filter_string)}

NextRegistry ==
    \/ ConfigurationCell
    \/ TrainingCellBegin(Len(models))
    \/ StartRun
    \/ SetTag
    \/ Fit
    \/ EndRun
    \/ WithExit
    \/ RegistrationCell
    \/ UIRegisterModel(MatchingNames, MaxVersions)
    \/ UISetAlias
    \/ InferenceCell

SpecRegistry == Init /\ [][NextRegistry]_vars

\* The demo of the inference cell on its own: the tutorial followed once (the
\* configuration and training cells, the first run registered in the UI as
\* mnist_classifier with the alias champion, the inference cell), then any
\* images drawn in the Gradio interface.
FinishedRun(name, acc) ==
    [experiment_id |-> DefaultExperimentId + 1, status |-> "FINISHED",
     runName |-> name, validation_accuracy |-> acc]

InitClassify ==
    /\ experiments = SetExperiment(
           {[experiment_id |-> DefaultExperimentId, name |-> "Default"]},
           experiment_name).store
    /\ \E a1 \in AccValues, a2 \in AccValues :
           runs = <<FinishedRun(models[1], a1), FinishedRun(models[2], a2)>>
    /\ activeExperiment = DefaultExperimentId + 1
    /\ activeRuns = <<>>
    /\ experiment = DefaultExperimentId + 1
    /\ trainPc = "idle"
    /\ trainIdx = 0
    /\ trainStart = <<>>
    /\ modelVersions = RegisterModel({}, MnistClassifier, 1).store
    /\ aliases = SetRegisteredModelAlias({}, MnistClassifier, "champion", 1)
    /\ model = LoadModel(modelVersions, aliases, MnistClassifier, "champion").model
    /\ last = [op |-> "inference_cell", exc |-> "none",
               previous |-> [kind |-> "keras", name |-> <<>>, version |-> Len(models)]]

NextClassify == Classify

SpecClassify == InitClassify /\ [][NextClassify]_vars

(* ------------------------------- claims ------------------------------- *)

\* C1: every alias of every registered model is bound to at most one version,
\* and that version is a version of the model; setting a bound alias therefore
\* replaces the binding instead of adding one.
C1_AliasBoundToOneExistingVersion ==
    \A name \in ModelNames, alias \in Aliases :
        /\ Cardinality(AliasVersions(aliases, name, alias)) <= 1
        /\ AliasVersions(aliases, name, alias) \subseteq VersionNumbers(modelVersions, name)
        /\ (last.op = "ui_set_alias" /\ last.name = name /\ last.alias = alias) =>
               AliasVersions(aliases, name, alias) = {last.version}

\* An alias that was bound has just been set again in the UI, on a model with
\* two versions, and both aliases of the model are bound.
C1_Witness ==
    /\ last.op = "ui_set_alias"
    /\ last.rebound
    /\ Cardinality(VersionsOf(modelVersions, last.name)) = 2
    /\ \A alias \in Aliases : AliasVersions(aliases, last.name, alias) # {}

\* C5: a registration adds exactly one version to the model it names, numbered
\* unlike every version the model had, and leaves every existing version (of
\* any model) and the run it points to as they were.
C5_RegisterAddsOneVersion ==
    [][modelVersions' # modelVersions =>
          \E mv \in modelVersions' \ modelVersions :
              /\ modelVersions' = modelVersions \cup {mv}
              /\ mv.version \notin VersionNumbers(modelVersions, mv.name)
              /\ Cardinality(VersionsOf(modelVersions', mv.name))
                     = Cardinality(VersionsOf(modelVersions, mv.name)) + 1
              /\ \A old \in modelVersions : runs'[old.run_id] = runs[old.run_id]
      ]_vars

\* A model registered twice: it has versions 1 and 2.
C5_Witness ==
    \E name \in ModelNames :
        /\ VersionNumbers(modelVersions, name) = {1, 2}
        /\ last.op \in {"ui_register_model", "registration_cell"}

\* C6: when the registration cell has run to the end of its try block, the
\* alias challenger of the model it matched is bound to the version its
\* register_model call created, the latest of the model, and to no other.
C6_ChallengerIsNewVersion ==
    (last.op = "registration_cell" /\ last.exc = "none") =>
        /\ last.mv \in modelVersions
        /\ last.mv.name = SearchRegisteredModels(modelVersions, filter_string)[1]
        /\ last.mv.version = LatestVersion(modelVersions, last.mv.name)
        /\ AliasVersions(aliases, last.mv.name, "challenger") = {last.mv.version}

\* The cell succeeded on a model that already had a version.
C6_Witness ==
    /\ last.op = "registration_cell"
    /\ last.exc = "none"
    /\ last.mv.version = 2

\* C7: an execution of the inference cell loads the version champion is bound
\* to at that moment, and fails (leaving `model` as it was) when champion is
\* bound to no version of mnist_classifier.
C7_LoadResolvesAlias ==
    last.op = "inference_cell" =>
        IF AliasVersions(aliases, MnistClassifier, "champion") = {}
        THEN last.exc # "none" /\ model = last.previous
        ELSE /\ last.exc = "none"
             /\ model.kind = "pyfunc"
             /\ model.name = MnistClassifier
             /\ AliasVersions(aliases, MnistClassifier, "champion") = {model.version}

\* A load of version 2 in a kernel whose `model` held version 1: champion was
\* rebound between two executions of the inference cell.
C7_Witness ==
    /\ last.op = "inference_cell"
    /\ last.exc = "none"
    /\ last.previous.kind = "pyfunc"
    /\ last.previous.version = 1
    /\ model.version = 2

\* Rows search_runs returns for the experiment of the notebook.
RowsOfExperiment == SearchRuns(runs, experiment)

\* C2: a version the registration cell registers points to a run of the
\* notebook's experiment whose validation_accuracy no run that search_runs
\* returns for the experiment exceeds, whichever execution of the training
\* cell left it.
C2_RegistersBestRun ==
    (last.op = "registration_cell" /\ last.mv # NoVersion) =>
        /\ last.mv.run_id = last.run_id
        /\ last.run_id \in RunIds
        /\ runs[last.run_id].experiment_id = experiment
        /\ runs[last.run_id].validation_accuracy # NoMetric
        /\ \A p \in 1..Len(RowsOfExperiment) :
               runs[RowsOfExperiment[p]].validation_accuracy
                   <= runs[last.run_id].validation_accuracy

\* The cell registered a run of the first of two executions of the training
\* cell, strictly better than a run of the second.
C2_Witness ==
    /\ last.op = "registration_cell"
    /\ last.mv # NoVersion
    /\ Len(runs) = 4
    /\ last.run_id <= 2
    /\ \E later \in 3..4 :
           /\ runs[later].experiment_id = experiment
           /\ runs[later].validation_accuracy # NoMetric
           /\ runs[later].validation_accuracy < runs[last.run_id].validation_accuracy

\* No registered model matches the filter.
NoModelMatches == SearchRegisteredModels(modelVersions, filter_string) = <<>>

\* The try block gets as far as the registry search: `experiment` is defined
\* and some run of the experiment has a validation_accuracy.
ReachesRegistrySearch ==
    /\ experiment # Undefined
    /\ WithMetric(runs, RowsOfExperiment) # {}

\* C3 as stated: whenever no registered model matches, the registration cell
\* prints the message of the IndexError handler and leaves the registry alone.
C3_Original ==
    [][(RegistrationCell /\ NoModelMatches) =>
          /\ last'.printed = "No registered model found"
          /\ UNCHANGED registryVars
      ]_vars

\* C3 amended: when no registered model matches, the registration cell leaves
\* the registry alone (no version, no alias); it prints the message of the
\* IndexError handler when the try block reaches the registry search and the
\* search does not fail, and the generic message otherwise.
C3_NoMatchLeavesRegistry ==
    [][(RegistrationCell /\ NoModelMatches) =>
          /\ UNCHANGED registryVars
          /\ last'.mv = NoVersion
          /\ IF ReachesRegistrySearch
             THEN \/ last'.exc = "IndexError"
                     /\ last'.printed = "No registered model found"
                  \/ last'.exc = "MlflowException"
                     /\ last'.printed = "An exception occurred"
             ELSE /\ last'.exc \in {"NameError", "KeyError", "MlflowException"}
                  /\ last'.printed = "An exception occurred"
      ]_vars

\* The cell found runs and no matching model, in a registry that holds a
\* model of another name.
C3_Witness ==
    /\ last.op = "registration_cell"
    /\ last.printed = "No registered model found"
    /\ modelVersions # {}
    /\ NoModelMatches

\* C4: every exception of the try block ends in one of the two handlers, which
\* prints its message; none leaves the cell, and the cell ends.
C4_NoExceptionEscapes ==
    last.op = "registration_cell" =>
        /\ last.printed # "escaped"
        /\ last.exc = "none" <=> last.printed = "none"
        /\ last.exc = "IndexError" <=> last.printed = "No registered model found"
        /\ last.exc \in {"NameError", "KeyError", "MlflowException"}
               <=> last.printed = "An exception occurred"
        /\ trainPc = "idle"

\* set_registered_model_alias failed after register_model had succeeded, and
\* the generic handler printed.
C4_Witness ==
    /\ last.op = "registration_cell"
    /\ last.exc = "MlflowException"
    /\ last.mv # NoVersion
    /\ last.printed = "An exception occurred"

\* C8: the configuration cell leaves exactly one experiment of its name; when
\* one existed it creates none and returns that one.
C8_SetExperimentIdempotent ==
    [][ConfigurationCell =>
          /\ Cardinality(ExperimentsNamed(experiments', experiment_name)) = 1
          /\ \A e \in ExperimentsNamed(experiments', experiment_name) :
                 experiment' = e.experiment_id /\ activeExperiment' = e.experiment_id
          /\ ExperimentsNamed(experiments, experiment_name) # {} =>
                 /\ experiments' = experiments
                 /\ experiment # Undefined => experiment' = experiment
      ]_vars

\* The configuration cell was executed on a store that held the experiment,
\* with runs of two executions of the training cell in it.
C8_Witness ==
    /\ last.op = "configuration_cell"
    /\ last.existed
    /\ Len(runs) = 4
    /\ Cardinality(experiments) = 2

C10_AtMostOneActiveRun ==
    /\ Cardinality(ActiveRunIds(runs)) <= 1
    /\ Len(activeRuns) <= 1
    /\ \A i \in 1..Len(activeRuns) : runs[activeRuns[i]].status = "RUNNING"
    /\ trainPc \in {"idle", "start_run"} => ActiveRunIds(runs) = {}

\* The run of the second model is active and the run of the first has ended.
C10_Witness ==
    /\ trainPc = "fit"
    /\ trainIdx = 2
    /\ ActiveRunIds(runs) = {Len(runs)}
    /\ runs[Len(runs) - 1].status = "FINISHED"

\* C11: the explicit end_run ends the run of the iteration and only that run
\* (FINISHED); the exit of the with-block that follows finds no active run and
\* changes no run; a run that is FINISHED stays FINISHED in every step.
C11_SecondEndIsNoOp ==
    [][/\ \A i \in 1..Len(runs) :
              runs[i].status = "FINISHED" => runs'[i].status = "FINISHED"
       /\ EndRun =>
              /\ Len(activeRuns) = 1
              /\ runs[activeRuns[1]].status = "RUNNING"
              /\ runs' = [runs EXCEPT ![activeRuns[1]].status = "FINISHED"]
              /\ activeRuns' = <<>>
       /\ WithExit =>
              /\ activeRuns = <<>>
              /\ runs[Len(runs)].status = "FINISHED"
              /\ runs' = runs
              /\ activeRuns' = activeRuns
      ]_vars

\* The with-block of the first model has been left, after both ends of its
\* run, in a store that holds runs of an earlier execution: all are FINISHED.
C11_Witness ==
    /\ trainPc = "start_run"
    /\ trainIdx = 2
    /\ Len(runs) = 3
    /\ \A i \in 1..Len(runs) : runs[i].status = "FINISHED"

\* C12: classify takes the channel mean exactly when the image has three
\* dimensions (3 or 4 channels), never for a 2-D image, and hands the model an
\* array of shape (1, 28, 28).
C12_GrayscaleIffColour ==
    last.op = "classify" =>
        /\ last.meanTaken <=> Len(last.shape) = 3
        /\ last.predictShape = <<1, Side, Side>>

\* C13: an execution of the registration cell changes no alias binding but
\* challenger of the model it registered to, and none at all when a handler
\* ran; champion of every model, and with it what the inference cell would
\* load, is as before the cell.
C13_OtherAliasesUnchanged ==
    last.op = "registration_cell" =>
        /\ \A name \in ModelNames, alias \in Aliases :
               (alias # "challenger" \/ name # last.mv.name \/ last.exc # "none") =>
                   AliasVersions(aliases, name, alias)
                       = AliasVersions(last.before.aliases, name, alias)
        /\ LoadModel(modelVersions, aliases, MnistClassifier, "champion")
               = LoadModel(last.before.modelVersions, last.before.aliases,
                           MnistClassifier, "champion")

\* The cell succeeded on mnist_classifier, whose champion is version 1: the
\* new version 2 is challenger and champion is still version 1.
C13_Witness ==
    /\ last.op = "registration_cell"
    /\ last.exc = "none"
    /\ last.mv.name = MnistClassifier
    /\ AliasVersions(aliases, MnistClassifier, "champion") = {1}
    /\ AliasVersions(aliases, MnistClassifier, "challenger") = {2}

\* C14: when the try block is left by an exception after register_model has
\* returned, the generic handler prints, the new version is in the registry
\* and is all that was added, and every alias, challenger included, is bound
\* as before the cell.
C14_NoRollback ==
    (last.op = "registration_cell" /\ last.exc # "none" /\ last.mv # NoVersion) =>
        /\ last.printed = "An exception occurred"
        /\ last.mv \notin last.before.modelVersions
        /\ modelVersions = last.before.modelVersions \cup {last.mv}
        /\ aliases = last.before.aliases

\* set_registered_model_alias failed for the new version 2 of a model whose
\* challenger is version 1: version 2 is registered, challenger is version 1.
C14_Witness ==
    /\ last.op = "registration_cell"
    /\ last.exc = "MlflowException"
    /\ last.mv \in modelVersions
    /\ last.mv.version = 2
    /\ AliasVersions(aliases, last.mv.name, "challenger") = {1}

====
